---------------------------- MODULE Spec2Model ----------------------------
(***************************************************************************)
(* Crawler-Duel: the race orchestrator (app.py), the benchmark engine      *)
(* (utils/benchmark.py), the quality evaluator on CrawlResult              *)
(* (crawlers/base_crawler.py) and the proxy rotation of AntiBot            *)
(* (utils/antibot.py).                                                     *)
(*                                                                         *)
(* Strings whose characters matter (CrawlResult.content) are sequences of  *)
(* one-character strings.  Optional values are records: None, Some(v).     *)
(* time_taken is kept in tenths of a second; scores are exact rationals    *)
(* [num, den].                                                             *)
(***************************************************************************)
EXTENDS Integers, Sequences, FiniteSets, TLC

\* ------------------------------------------------------------------------
\* Optional values (Python None / a value)
\* ------------------------------------------------------------------------
None == [some |-> FALSE]
Some(v) == [some |-> TRUE, val |-> v]

\* ------------------------------------------------------------------------
\* Python str operations used by the quality evaluator
\* ------------------------------------------------------------------------
Rep(c, n) == [i \in 1..n |-> c]
X(n) == Rep("x", n)

Min(a, b) == IF a <= b THEN a ELSE b
Max(a, b) == IF a >= b THEN a ELSE b

UpperCase == <<"A","B","C","D","E","F","G","H","I","J","K","L","M",
               "N","O","P","Q","R","S","T","U","V","W","X","Y","Z">>
LowerCase == <<"a","b","c","d","e","f","g","h","i","j","k","l","m",
               "n","o","p","q","r","s","t","u","v","w","x","y","z">>

UpperSet == {UpperCase[k] : k \in 1..26}
LowerOf == [c \in UpperSet |-> LowerCase[CHOOSE k \in 1..26 : UpperCase[k] = c]]

\* str.lower() of one character.  "Idot" is U+0130 (capital I with dot
\* above), the one character whose lower-case form is two characters:
\* "i" followed by "cdot" (U+0307, combining dot above).
LowerChar(c) ==
    IF c = "Idot" THEN <<"i", "cdot">>
    ELSE IF c \in UpperSet THEN <<LowerOf[c]>>
    ELSE <<c>>

\* the lower-case forms of s[lo..hi], concatenated (halving keeps the
\* evaluation depth logarithmic in the length)
RECURSIVE LowerRange(_, _, _)
LowerRange(s, lo, hi) ==
    IF lo > hi THEN <<>>
    ELSE IF lo = hi THEN LowerChar(s[lo])
    ELSE LET mid == (lo + hi) \div 2
         IN  LowerRange(s, lo, mid) \o LowerRange(s, mid + 1, hi)

\* str.lower()
Lower(s) == LowerRange(s, 1, Len(s))

\* s[:n]
Take(s, n) == SubSeq(s, 1, Min(n, Len(s)))

Whitespace == {" ", "\n", "\t"}

\* str.strip(): what lies between the first and the last character that
\* is not whitespace
Strip(s) ==
    IF \A i \in 1..Len(s) : s[i] \in Whitespace THEN <<>>
    ELSE SubSeq(s,
                CHOOSE i \in 1..Len(s) :
                    s[i] \notin Whitespace /\ \A j \in 1..(i - 1) : s[j] \in Whitespace,
                CHOOSE i \in 1..Len(s) :
                    s[i] \notin Whitespace /\ \A j \in (i + 1)..Len(s) : s[j] \in Whitespace)

\* w in s
Contains(s, w) ==
    \E i \in 1..(Len(s) - Len(w) + 1) :
        \A k \in 1..Len(w) : s[i + k - 1] = w[k]

Blocked == <<"b","l","o","c","k","e","d">>
Captcha == <<"c","a","p","t","c","h","a">>
HtmlTag == <<"<","h","t","m","l">>

\* ------------------------------------------------------------------------
\* CrawlResult and the quality evaluator (crawlers/base_crawler.py)
\* ------------------------------------------------------------------------
MinContentLen == 100
IntegrityWindow == 500
HtmlWindow == 100
BlockStatusCodes == {403, 429, 503}

\* Python truthiness of an Optional[int] / Optional[str]
TruthyInt(x) == x.some /\ x.val # 0
TruthyStr(x) == x.some /\ x.val # <<>>

NoMetadata == [has_json |-> FALSE, has_markdown |-> FALSE, clean_text |-> FALSE]

CrawlResult(url, success, time_taken, status_code, content, error, data_size, crawler_type, metadata) ==
    [url |-> url, success |-> success, time_taken |-> time_taken,
     status_code |-> status_code, content |-> content, error |-> error,
     data_size |-> data_size, crawler_type |-> crawler_type,
     metadata |-> metadata]

\* _create_result that measures the content of successful results only
create_result_size_on_success(name, url, success, elapsed, status_code, content, error, metadata) ==
    CrawlResult(url, success, elapsed, status_code, content, error,
                IF success /\ TruthyStr(content) THEN Len(content.val) ELSE 0,
                name, metadata)

\* BaseCrawler._create_result: elapsed is time.time() - start_time
create_result(name, url, success, elapsed, status_code, content, error, metadata) ==
    CrawlResult(url, success, elapsed, status_code, content, error,
                IF TruthyStr(content) THEN Len(content.val) ELSE 0,
                name, metadata)

\* has_data_integrity_issues with the keyword search written content[:500].lower()
has_data_integrity_issues_slice_first(r) ==
    IF ~r.success THEN TRUE
    ELSE IF TruthyInt(r.status_code) /\ r.status_code.val \in BlockStatusCodes THEN TRUE
    ELSE IF ~TruthyStr(r.content) \/ Len(Strip(r.content.val)) < MinContentLen THEN TRUE
    ELSE LET head == Lower(Take(r.content.val, IntegrityWindow))
         IN  IF Contains(head, Blocked) \/ Contains(head, Captcha) THEN TRUE
             ELSE FALSE

has_data_integrity_issues(r) ==
    IF ~r.success THEN TRUE
    ELSE IF TruthyInt(r.status_code) /\ r.status_code.val \in BlockStatusCodes THEN TRUE
    ELSE IF ~TruthyStr(r.content) \/ Len(Strip(r.content.val)) < MinContentLen THEN TRUE
    ELSE LET head == Take(Lower(r.content.val), IntegrityWindow)
         IN  IF Contains(head, Blocked) \/ Contains(head, Captcha) THEN TRUE
             ELSE FALSE

\* get_structural_quality_score with the raw-HTML penalty looking at the whole content
get_structural_quality_score_no_window(r) ==
    IF ~r.success \/ ~TruthyStr(r.content) THEN 0
    ELSE LET s1 == 50
             s2 == IF r.metadata.has_json THEN s1 + 20 ELSE s1
             s3 == IF r.metadata.has_markdown THEN s2 + 15 ELSE s2
             s4 == IF r.metadata.clean_text THEN s3 + 15 ELSE s3
             s5 == IF Contains(Lower(r.content.val), HtmlTag)
                   THEN s4 - 10 ELSE s4
         IN  Min(100, Max(0, s5))

\* get_structural_quality_score with the weights 40, 5 and 5
get_structural_quality_score_json_heavy(r) ==
    IF ~r.success \/ ~TruthyStr(r.content) THEN 0
    ELSE LET s1 == 50
             s2 == IF r.metadata.has_json THEN s1 + 40 ELSE s1
             s3 == IF r.metadata.has_markdown THEN s2 + 5 ELSE s2
             s4 == IF r.metadata.clean_text THEN s3 + 5 ELSE s3
             s5 == IF Contains(Lower(Take(r.content.val, HtmlWindow)), HtmlTag)
                   THEN s4 - 10 ELSE s4
         IN  Min(100, Max(0, s5))

get_structural_quality_score(r) ==
    IF ~r.success \/ ~TruthyStr(r.content) THEN 0
    ELSE LET s1 == 50
             s2 == IF r.metadata.has_json THEN s1 + 20 ELSE s1
             s3 == IF r.metadata.has_markdown THEN s2 + 15 ELSE s2
             s4 == IF r.metadata.clean_text THEN s3 + 15 ELSE s3
             s5 == IF Contains(Lower(Take(r.content.val, HtmlWindow)), HtmlTag)
                   THEN s4 - 10 ELSE s4
         IN  Min(100, Max(0, s5))


\* ------------------------------------------------------------------------
\* Python dict (insertion-ordered) as a sequence of [key, value] items
\* ------------------------------------------------------------------------
DictHas(d, k) == \E i \in 1..Len(d) : d[i].key = k

DictGet(d, k) == d[CHOOSE i \in 1..Len(d) : d[i].key = k].value

\* d[k] = v: an existing key keeps its position, a new key goes last
DictSet(d, k, v) ==
    IF DictHas(d, k)
    THEN [i \in 1..Len(d) |-> IF d[i].key = k THEN [key |-> k, value |-> v] ELSE d[i]]
    ELSE Append(d, [key |-> k, value |-> v])

\* ------------------------------------------------------------------------
\* Exact rationals for scores (time_taken is in tenths of a second)
\* ------------------------------------------------------------------------
Rat(n, d) == [num |-> n, den |-> d]
RatLess(a, b) == a.num * b.den < b.num * a.den
RatEq(a, b) == a.num * b.den = b.num * a.den

\* ------------------------------------------------------------------------
\* BenchmarkEngine (utils/benchmark.py)
\* ------------------------------------------------------------------------
\* an add_result that drops an outcome equal to one already stored
add_result_skip_duplicate(rs, r) ==
    IF \E i \in 1..Len(rs) : rs[i] = r THEN rs ELSE Append(rs, r)

add_result(rs, r) == Append(rs, r)

clear_results == <<>>

\* one row per stored result
get_comparison_table(rs) ==
    [i \in 1..Len(rs) |->
        [Crawler |-> rs[i].crawler_type,
         Success |-> rs[i].success,
         Time |-> rs[i].time_taken,
         StatusCode |-> rs[i].status_code,
         DataSize |-> rs[i].data_size,
         DataIntegrity |-> ~has_data_integrity_issues(rs[i]),
         QualityScore |-> get_structural_quality_score(rs[i]),
         Error |-> rs[i].error]]

\* the score without the 30 points for data integrity
composite_score_no_integrity(r) ==
    LET t == r.time_taken
        quality4 == 4 * get_structural_quality_score(r)
    IN  IF t > 0
        THEN Rat(10 * Min(100, 30 * t) + quality4 * t, 10 * t)
        ELSE Rat(quality4, 10)

\* the score with a speed part that is not capped at 30
composite_score_uncapped(r) ==
    LET t == r.time_taken
        integrity == IF ~has_data_integrity_issues(r) THEN 30 ELSE 0
        quality4 == 4 * get_structural_quality_score(r)
    IN  IF t > 0
        THEN Rat(10 * 100 + (10 * integrity + quality4) * t, 10 * t)
        ELSE Rat(10 * integrity + quality4, 10)

\* the score get_winner computes for one successful result:
\* min(1 / time_taken * 10, 30) + 30 (no integrity issue) + quality * 0.4
composite_score(r) ==
    LET t == r.time_taken
        integrity == IF ~has_data_integrity_issues(r) THEN 30 ELSE 0
        quality4 == 4 * get_structural_quality_score(r)     \* tenths
    IN  IF t > 0
        THEN Rat(10 * Min(100, 30 * t) + (10 * integrity + quality4) * t, 10 * t)
        ELSE Rat(10 * integrity + quality4, 10)

\* the loop of get_winner with scores.setdefault(crawler, score)
RECURSIVE ScoreLoop_keep_first(_, _, _)
ScoreLoop_keep_first(successful, i, scores) ==
    IF i > Len(successful) THEN scores
    ELSE ScoreLoop_keep_first(successful, i + 1,
            IF DictHas(scores, successful[i].crawler_type) THEN scores
            ELSE DictSet(scores, successful[i].crawler_type,
                         composite_score(successful[i])))

\* the loop of get_winner over successful_results: scores[crawler] = score
RECURSIVE ScoreLoop(_, _, _)
ScoreLoop(successful, i, scores) ==
    IF i > Len(successful) THEN scores
    ELSE ScoreLoop(successful, i + 1,
                   DictSet(scores, successful[i].crawler_type,
                           composite_score(successful[i])))

\* max that moves on to a later item of equal value
RECURSIVE PyMaxFrom_last(_, _, _)
PyMaxFrom_last(items, i, best) ==
    IF i > Len(items) THEN best
    ELSE PyMaxFrom_last(items, i + 1,
                   IF ~RatLess(items[i].value, items[best].value) THEN i ELSE best)

\* max(items, key=value): the first item no later item exceeds
RECURSIVE PyMaxFrom(_, _, _)
PyMaxFrom(items, i, best) ==
    IF i > Len(items) THEN best
    ELSE PyMaxFrom(items, i + 1,
                   IF RatLess(items[best].value, items[i].value) THEN i ELSE best)

PyMax(items) == items[PyMaxFrom(items, 2, 1)]

\* get_winner without the check for an empty store
get_winner_no_empty_check(rs) ==
    LET successful_results == SelectSeq(rs, LAMBDA r : r.success)
    IN  IF successful_results = <<>>
        THEN [winner |-> None, reason |-> [text |-> "All crawlers failed"]]
        ELSE LET scores == ScoreLoop(successful_results, 1, <<>>)
                 winner == PyMax(scores)
             IN  [winner |-> Some(winner.key),
                  score |-> winner.value,
                  reason |-> [text |-> "won", name |-> winner.key, score |-> winner.value],
                  all_scores |-> scores]

get_winner(rs) ==
    IF rs = <<>>
    THEN [winner |-> None, reason |-> [text |-> "No results available"]]
    ELSE LET successful_results == SelectSeq(rs, LAMBDA r : r.success)
         IN  IF successful_results = <<>>
             THEN [winner |-> None, reason |-> [text |-> "All crawlers failed"]]
             ELSE LET scores == ScoreLoop(successful_results, 1, <<>>)
                      winner == PyMax(scores)
                      winner_result ==
                          rs[CHOOSE i \in 1..Len(rs) :
                                /\ rs[i].crawler_type = winner.key
                                /\ \A j \in 1..(i - 1) : rs[j].crawler_type # winner.key]
                      quality == get_structural_quality_score(winner_result)
                  IN  [winner |-> Some(winner.key),
                       score |-> winner.value,
                       reason |-> [text |-> "won",
                                   name |-> winner.key,
                                   score |-> winner.value,
                                   time |-> winner_result.time_taken,
                                   integrity |-> ~has_data_integrity_issues(winner_result),
                                   high_quality |-> quality >= 80,
                                   quality |-> quality],
                       all_scores |-> scores]

\* costs.get(crawler, 1)
RelativeCost_default_one(crawler) ==
    CASE crawler = "Lightweight" -> 1
      [] crawler = "Browser-Based" -> 5
      [] crawler = "AI-Agentic" -> 10
      [] OTHER -> 1

\* costs.get(crawler, 5)
RelativeCost(crawler) ==
    CASE crawler = "Lightweight" -> 1
      [] crawler = "Browser-Based" -> 5
      [] crawler = "AI-Agentic" -> 10
      [] OTHER -> 5

\* sorted(pairs, key=lambda x: x[1], reverse=desc), by insertion; like
\* Python's sort it is stable, also with reverse=True
Before(a, b, desc) == IF desc THEN a > b ELSE a < b

RECURSIVE InsertSorted(_, _, _)
InsertSorted(sorted, x, desc) ==
    IF sorted = <<>> THEN <<x>>
    ELSE IF Before(x.value, sorted[Len(sorted)].value, desc)
         THEN Append(InsertSorted(SubSeq(sorted, 1, Len(sorted) - 1), x, desc),
                     sorted[Len(sorted)])
         ELSE Append(sorted, x)

RECURSIVE StableSort(_, _, _)
StableSort(pairs, n, desc) ==
    IF n = 0 THEN <<>>
    ELSE InsertSorted(StableSort(pairs, n - 1, desc), pairs[n], desc)

\* {crawler: idx + 1 for idx, (crawler, _) in enumerate(sorted)}
RECURSIVE RankDict(_, _, _)
RankDict(sorted, i, d) ==
    IF i > Len(sorted) THEN d
    ELSE RankDict(sorted, i + 1, DictSet(d, sorted[i].key, i))

Blank == [kind |-> "blank"]
Dash == [kind |-> "dash"]
Rank(n) == [kind |-> "rank", val |-> n]

\* df['Crawler'].map(lambda x: ranks.get(x, '-'))
RankOf(ranks, crawler) ==
    IF DictHas(ranks, crawler) THEN Rank(DictGet(ranks, crawler)) ELSE Dash

\* get_recommendation on the ratio in hundredths
get_recommendation(cb100) ==
    IF cb100 > 500 THEN "Excellent"
    ELSE IF cb100 > 300 THEN "Good"
    ELSE IF cb100 > 100 THEN "Fair"
    ELSE "Poor"

\* a benefit that credits a failed result with 10 points
BenefitTenths_credit_for_failure(r) ==
    IF r.success
    THEN 400 + (IF ~has_data_integrity_issues(r) THEN 300 ELSE 0)
             + 3 * get_structural_quality_score(r)
    ELSE 100

\* a benefit with a base of 20 points for a successful result
BenefitTenths_low_base(r) ==
    IF r.success
    THEN 200 + (IF ~has_data_integrity_issues(r) THEN 300 ELSE 0)
             + 3 * get_structural_quality_score(r)
    ELSE 0

\* benefit in tenths: 40 + 30 (no integrity issue) + quality * 0.3
BenefitTenths(r) ==
    IF r.success
    THEN 400 + (IF ~has_data_integrity_issues(r) THEN 300 ELSE 0)
             + 3 * get_structural_quality_score(r)
    ELSE 0

\* f"{cb_ratio:.2f}" read back by float(): the ratio rounded to hundredths
\* (benefit is a multiple of 0.1 and cost divides 10, so it is exact)
RatioHundredths(benefit10, cost) ==
    IF cost > 0 THEN (benefit10 * 10) \div cost ELSE 0

get_cost_benefit_analysis(rs) ==
    IF rs = <<>> THEN <<>>
    ELSE LET successful == SelectSeq(rs, LAMBDA r : r.success)
             successful_times ==
                 [i \in 1..Len(successful) |->
                     [key |-> successful[i].crawler_type,
                      value |-> successful[i].time_taken]]
             quality_scores ==
                 [i \in 1..Len(successful) |->
                     [key |-> successful[i].crawler_type,
                      value |-> get_structural_quality_score(successful[i])]]
             sorted_by_speed ==
                 StableSort(successful_times, Len(successful_times), FALSE)
             sorted_by_quality ==
                 StableSort(quality_scores, Len(quality_scores), TRUE)
             speed_ranks == RankDict(sorted_by_speed, 1, <<>>)
             quality_ranks == RankDict(sorted_by_quality, 1, <<>>)
         IN  [i \in 1..Len(rs) |->
                LET crawler == rs[i].crawler_type
                    cost == RelativeCost(crawler)
                    benefit == BenefitTenths(rs[i])
                    cb_ratio == RatioHundredths(benefit, cost)
                IN  [Crawler |-> crawler,
                     RelativeCost |-> cost,
                     BenefitScore |-> benefit,
                     CostBenefitRatio |-> cb_ratio,
                     SpeedRank |-> IF successful_times # <<>>
                                   THEN RankOf(speed_ranks, crawler) ELSE Blank,
                     QualityRank |-> IF quality_scores # <<>>
                                     THEN RankOf(quality_ranks, crawler) ELSE Blank,
                     Recommendation |-> get_recommendation(cb_ratio)]]

\* sum(r.time_taken for r in results[:n]) and sum(r.data_size for ...)
RECURSIVE SumTimeTaken(_, _)
SumTimeTaken(rs, n) ==
    IF n = 0 THEN 0 ELSE SumTimeTaken(rs, n - 1) + rs[n].time_taken

RECURSIVE SumDataSize(_, _)
SumDataSize(rs, n) ==
    IF n = 0 THEN 0 ELSE SumDataSize(rs, n - 1) + rs[n].data_size

RECURSIVE SumSuccessfulTime(_, _)
SumSuccessfulTime(rs, n) ==
    IF n = 0 THEN 0
    ELSE SumSuccessfulTime(rs, n - 1) + (IF rs[n].success THEN rs[n].time_taken ELSE 0)

\* get_summary_stats whose avg_time is the mean over the successful results
get_summary_stats_avg_of_successes(rs) ==
    IF rs = <<>> THEN [empty |-> TRUE]
    ELSE LET ok == Cardinality({i \in 1..Len(rs) : rs[i].success})
         IN [empty |-> FALSE,
             total_crawls |-> Len(rs),
             successful_crawls |-> ok,
             avg_time |-> Rat(SumSuccessfulTime(rs, Len(rs)), Max(1, ok)),
             total_data_size |-> SumDataSize(rs, Len(rs)),
             crawlers_tested |-> {rs[i].crawler_type : i \in 1..Len(rs)}]

\* get_summary_stats that counts every result as successful
get_summary_stats_count_all(rs) ==
    IF rs = <<>> THEN [empty |-> TRUE]
    ELSE [empty |-> FALSE,
          total_crawls |-> Len(rs),
          successful_crawls |-> Len(rs),
          avg_time |-> Rat(SumTimeTaken(rs, Len(rs)), Len(rs)),
          total_data_size |-> SumDataSize(rs, Len(rs)),
          crawlers_tested |-> {rs[i].crawler_type : i \in 1..Len(rs)}]

\* the empty dict {} is [empty |-> TRUE]
get_summary_stats(rs) ==
    IF rs = <<>> THEN [empty |-> TRUE]
    ELSE [empty |-> FALSE,
          total_crawls |-> Len(rs),
          successful_crawls |-> Cardinality({i \in 1..Len(rs) : rs[i].success}),
          avg_time |-> Rat(SumTimeTaken(rs, Len(rs)), Len(rs)),
          total_data_size |-> SumDataSize(rs, Len(rs)),
          crawlers_tested |-> {rs[i].crawler_type : i \in 1..Len(rs)}]

\* ------------------------------------------------------------------------
\* State
\* ------------------------------------------------------------------------
VARIABLES
    \* app.py, main(): the coordinator and its session state
    main_pc,            \* where main() stands
    crawlers_to_run,    \* names of the dispatched crawlers, in dispatch order
    idx,                \* loop position of the dispatch loop / the join loop
    thread_pc,          \* per crawler name: where its worker thread stands
    thread_result,      \* per crawler name: the worker's local `result` (what crawl returned)
    result_queue,       \* Queue of (crawler_name, result-or-None)
    results_received,
    crawl_results,      \* st.session_state.crawl_results (dict as a sequence of items)
    race_complete,      \* st.session_state.race_complete
    placeholders,       \* per crawler name: what its status display shows
    observed,           \* per crawler name: completion updates of its status display
    races_started,      \* how often "Start Race" was pressed in this session
    \* utils/benchmark.py
    results,            \* BenchmarkEngine.results
    \* crawlers/base_crawler.py
    subject,            \* the CrawlResult a quality method is called on
    \* utils/antibot.py
    proxies,            \* AntiBot.proxies
    proxy_index,        \* AntiBot.proxy_index
    caller_pc,          \* per caller: where it stands inside get_next_proxy
    caller_url,         \* per caller: local proxy_url
    caller_tmp,         \* per caller: the value of self.proxy_index + 1 it computed
    call_log,           \* what completed get_next_proxy calls returned, in order
    \* the value returned by the last library call
    ret

race_vars == <<main_pc, crawlers_to_run, idx, thread_pc, thread_result,
               result_queue, results_received, crawl_results, race_complete,
               placeholders, observed, races_started>>
proxy_vars == <<proxies, proxy_index, caller_pc, caller_url, caller_tmp, call_log>>
vars == <<race_vars, results, subject, proxy_vars, ret>>

Names == <<"Lightweight", "Browser-Based", "AI-Agentic">>
NameSet == {Names[i] : i \in 1..Len(Names)}

MaxCallers == 2
Callers == 1..MaxCallers
MaxCalls == 3
MaxProxies == 3
MaxRaces == 2

NoCall == [op |-> "none"]
Url == "https://example.com"

\* the session state before any race (initialize_session_state)
RaceIdle ==
    /\ main_pc = "idle"
    /\ crawlers_to_run = <<>>
    /\ idx = 0
    /\ thread_pc = [n \in NameSet |-> "none"]
    /\ thread_result = [n \in NameSet |-> None]
    /\ result_queue = <<>>
    /\ results_received = 0
    /\ crawl_results = <<>>
    /\ race_complete = FALSE
    /\ placeholders = [n \in NameSet |-> "none"]
    /\ observed = [n \in NameSet |-> 0]
    /\ races_started = 0

\* an AntiBot without proxies and nobody calling it
ProxyIdle ==
    /\ proxies = <<>>
    /\ proxy_index = 0
    /\ caller_pc = [c \in Callers |-> "idle"]
    /\ caller_url = [c \in Callers |-> None]
    /\ caller_tmp = [c \in Callers |-> 0]
    /\ call_log = <<>>

\* ------------------------------------------------------------------------
\* Spec: races run from the dashboard (app.py)
\* ------------------------------------------------------------------------
\* what crawler.crawl(url, ...) can return, per crawler
AdapterResults(n) ==
    CASE n = "Lightweight" ->
            { \* HTTP 200
              create_result(n, Url, TRUE, 5, Some(200), Some(X(MinContentLen)), None, NoMetadata),
              \* HTTP 200 with an empty body
              create_result(n, Url, TRUE, 5, Some(200), Some(<<>>), None, NoMetadata),
              \* any other status: success is False and no error is set
              create_result(n, Url, FALSE, 5, Some(404), Some(X(5)), None, NoMetadata) }
      [] n = "Browser-Based" ->
            { create_result(n, Url, TRUE, 20, Some(200),
                            Some(HtmlTag \o X(MinContentLen)), None, NoMetadata),
              create_result(n, Url, FALSE, 20, None, None, Some("Browser timeout"),
                            NoMetadata) }
      [] n = "AI-Agentic" ->
            { create_result(n, Url, TRUE, 20, Some(200), Some(X(MinContentLen)), None,
                            [has_json |-> TRUE, has_markdown |-> TRUE, clean_text |-> TRUE]),
              create_result(n, Url, FALSE, 5, None, None,
                            Some("No data returned from Firecrawl"), NoMetadata) }

\* crawlers_to_run: the selected crawlers, always in this order
SelectCrawlers(sel) == SelectSeq(Names, LAMBDA n : n \in sel)

Init ==
    /\ RaceIdle
    /\ ProxyIdle
    /\ results = <<>>
    /\ subject = None
    /\ ret = NoCall

\* the "Start Race" button with a URL: reset the session, build the crawler
\* list; with no crawler selected main() reports an error and returns
StartRace(sel) ==
    /\ main_pc \in {"idle", "no_crawlers", "done"}
    /\ races_started < MaxRaces
    /\ races_started' = races_started + 1
    /\ race_complete' = FALSE
    /\ crawl_results' = <<>>
    /\ results' = clear_results
    /\ crawlers_to_run' = SelectCrawlers(sel)
    /\ thread_pc' = [n \in NameSet |-> "none"]
    /\ thread_result' = [n \in NameSet |-> None]
    /\ result_queue' = <<>>
    /\ results_received' = 0
    /\ ret' = NoCall
    /\ observed' = [n \in NameSet |-> 0]
    /\ IF SelectCrawlers(sel) = <<>>
       THEN /\ main_pc' = "no_crawlers"
            /\ idx' = 0
            /\ placeholders' = [n \in NameSet |-> "none"]
       ELSE /\ main_pc' = "dispatch"
            /\ idx' = 1
            /\ placeholders' = [n \in NameSet |-> IF n \in sel THEN "waiting" ELSE "none"]
    /\ UNCHANGED <<subject, proxy_vars>>

\* one round of the dispatch loop: thread.start(); after the last one
\* main() enters the collection loop with results_received = 0
StartThread ==
    /\ UNCHANGED races_started
    /\ main_pc = "dispatch"
    /\ placeholders' = [placeholders EXCEPT ![crawlers_to_run[idx]] = "running"]
    /\ thread_pc' = [thread_pc EXCEPT ![crawlers_to_run[idx]] = "identity"]
    /\ IF idx = Len(crawlers_to_run)
       THEN main_pc' = "collect" /\ idx' = 0
       ELSE main_pc' = "dispatch" /\ idx' = idx + 1
    /\ results_received' = 0
    /\ UNCHANGED <<crawlers_to_run, thread_result, result_queue, crawl_results,
                   race_complete, observed, results, subject, proxy_vars, ret>>

\* run_crawler_with_antibot: get_random_user_agent(), get_random_proxy()
GetIdentity(n) ==
    /\ UNCHANGED races_started
    /\ thread_pc[n] = "identity"
    /\ thread_pc' = [thread_pc EXCEPT ![n] = "crawl"]
    /\ UNCHANGED <<main_pc, crawlers_to_run, idx, thread_result, result_queue,
                   results_received, crawl_results, race_complete, placeholders, observed,
                   results, subject, proxy_vars, ret>>

\* ... or the identity lookup raises
IdentityRaises(n) ==
    /\ UNCHANGED races_started
    /\ thread_pc[n] = "identity"
    /\ thread_pc' = [thread_pc EXCEPT ![n] = "except"]
    /\ UNCHANGED <<main_pc, crawlers_to_run, idx, thread_result, result_queue,
                   results_received, crawl_results, race_complete, placeholders, observed,
                   results, subject, proxy_vars, ret>>

\* result = crawler.crawl(url, user_agent=..., proxy=...)
Crawl(n, r) ==
    /\ UNCHANGED races_started
    /\ thread_pc[n] = "crawl"
    /\ thread_result' = [thread_result EXCEPT ![n] = Some(r)]
    /\ thread_pc' = [thread_pc EXCEPT ![n] = "put"]
    /\ UNCHANGED <<main_pc, crawlers_to_run, idx, result_queue, results_received,
                   crawl_results, race_complete, placeholders, observed, results, subject,
                   proxy_vars, ret>>

\* ... or crawl raises
CrawlRaises(n) ==
    /\ UNCHANGED races_started
    /\ thread_pc[n] = "crawl"
    /\ thread_pc' = [thread_pc EXCEPT ![n] = "except"]
    /\ UNCHANGED <<main_pc, crawlers_to_run, idx, thread_result, result_queue,
                   results_received, crawl_results, race_complete, placeholders, observed,
                   results, subject, proxy_vars, ret>>

\* a worker that also stores its result in the engine itself
PutResult_and_store(n) ==
    /\ UNCHANGED races_started
    /\ thread_pc[n] = "put"
    /\ result_queue' = Append(result_queue, [name |-> n, result |-> thread_result[n]])
    /\ results' = add_result(results, thread_result[n].val)
    /\ thread_pc' = [thread_pc EXCEPT ![n] = "exit"]
    /\ UNCHANGED <<main_pc, crawlers_to_run, idx, thread_result, results_received,
                   crawl_results,
                   race_complete, placeholders, observed, subject, proxy_vars, ret>>

\* result_queue.put((crawler_name, result))
PutResult(n) ==
    /\ UNCHANGED races_started
    /\ thread_pc[n] = "put"
    /\ result_queue' = Append(result_queue, [name |-> n, result |-> thread_result[n]])
    /\ thread_pc' = [thread_pc EXCEPT ![n] = "exit"]
    /\ UNCHANGED <<main_pc, crawlers_to_run, idx, thread_result, results_received,
                   crawl_results,
                   race_complete, placeholders, observed, results, subject, proxy_vars, ret>>

\* an except branch that swallows the exception and reports nothing
PutNone_no_report(n) ==
    /\ UNCHANGED races_started
    /\ thread_pc[n] = "except"
    /\ thread_pc' = [thread_pc EXCEPT ![n] = "exit"]
    /\ UNCHANGED <<main_pc, crawlers_to_run, idx, thread_result, result_queue,
                   results_received, crawl_results, race_complete, placeholders, observed,
                   results, subject, proxy_vars, ret>>

\* except Exception: result_queue.put((crawler_name, None))
PutNone(n) ==
    /\ UNCHANGED races_started
    /\ thread_pc[n] = "except"
    /\ result_queue' = Append(result_queue, [name |-> n, result |-> None])
    /\ thread_pc' = [thread_pc EXCEPT ![n] = "exit"]
    /\ UNCHANGED <<main_pc, crawlers_to_run, idx, thread_result, results_received,
                   crawl_results, race_complete, placeholders, observed, results, subject,
                   proxy_vars, ret>>

\* the thread's target has returned: the thread ends
ThreadExit(n) ==
    /\ UNCHANGED races_started
    /\ thread_pc[n] = "exit"
    /\ thread_pc' = [thread_pc EXCEPT ![n] = "terminated"]
    /\ UNCHANGED <<main_pc, crawlers_to_run, idx, thread_result, result_queue,
                   results_received, crawl_results, race_complete, placeholders, observed,
                   results, subject, proxy_vars, ret>>

\* a get() that leaves the item in the queue
QueueGet_peek(q) == q

\* the queue after result_queue.get() has taken its first item
QueueGet(q) == Tail(q)

\* a collection loop that gives up at the first failure it has shown
MoreToCollect_until_failure ==
    /\ results_received < Len(crawlers_to_run)
    /\ \A n \in NameSet : placeholders[n] \notin {"failed", "failed_with_error"}

\* while results_received < len(crawlers_to_run)
MoreToCollect == results_received < Len(crawlers_to_run)

\* one round of the collection loop that finds the queue non-empty (a round
\* that finds it empty only sleeps)
Collect ==
    /\ UNCHANGED races_started
    /\ main_pc = "collect"
    /\ MoreToCollect
    /\ result_queue # <<>>
    /\ LET crawler_name == Head(result_queue).name
           result == Head(result_queue).result
       IN  /\ result_queue' = QueueGet(result_queue)
           /\ results_received' = results_received + 1
           /\ observed' = [observed EXCEPT ![crawler_name] = @ + 1]
           /\ IF result.some
              THEN /\ crawl_results' = DictSet(crawl_results, crawler_name, result.val)
                   /\ results' = add_result(results, result.val)
                   /\ placeholders' =
                         [placeholders EXCEPT ![crawler_name] =
                             IF result.val.success THEN "completed" ELSE "failed_with_error"]
              ELSE /\ placeholders' = [placeholders EXCEPT ![crawler_name] = "failed"]
                   /\ UNCHANGED <<crawl_results, results>>
    /\ UNCHANGED <<main_pc, crawlers_to_run, idx, thread_pc, thread_result,
                   race_complete, subject, proxy_vars, ret>>

\* the collection loop ends: results_received has reached len(crawlers_to_run)
EndCollect ==
    /\ UNCHANGED races_started
    /\ main_pc = "collect"
    /\ ~MoreToCollect
    /\ main_pc' = "join"
    /\ idx' = 1
    /\ UNCHANGED <<crawlers_to_run, thread_pc, thread_result, result_queue,
                   results_received, crawl_results, race_complete, placeholders, observed,
                   results, subject, proxy_vars, ret>>

\* a join that does not wait for the thread
JoinReturns_no_wait(n) == TRUE

\* thread.join() returns once the thread has ended
JoinReturns(n) == thread_pc[n] = "terminated"

JoinThread ==
    /\ UNCHANGED races_started
    /\ main_pc = "join"
    /\ idx <= Len(crawlers_to_run)
    /\ JoinReturns(crawlers_to_run[idx])
    /\ idx' = idx + 1
    /\ UNCHANGED <<main_pc, crawlers_to_run, thread_pc, thread_result, result_queue,
                   results_received, crawl_results, race_complete, placeholders, observed,
                   results, subject, proxy_vars, ret>>

\* what main() shows once race_complete is set: nothing unless
\* crawl_results is non-empty
Display ==
    IF crawl_results # <<>>
    THEN [op |-> "display", shown |-> TRUE,
          winner_info |-> get_winner(results),
          comparison |-> get_comparison_table(results),
          cost_benefit |-> get_cost_benefit_analysis(results),
          summary |-> get_summary_stats(results)]
    ELSE [op |-> "display", shown |-> FALSE]

\* all threads joined: race_complete = True, then the results section
FinishRace ==
    /\ UNCHANGED races_started
    /\ main_pc = "join"
    /\ idx > Len(crawlers_to_run)
    /\ race_complete' = TRUE
    /\ main_pc' = "done"
    /\ ret' = Display
    /\ UNCHANGED <<crawlers_to_run, idx, thread_pc, thread_result, result_queue,
                   results_received, crawl_results, placeholders, observed, results, subject,
                   proxy_vars>>

Next ==
    \/ \E sel \in SUBSET NameSet : StartRace(sel)
    \/ StartThread
    \/ \E n \in NameSet : GetIdentity(n)
    \/ \E n \in NameSet : IdentityRaises(n)
    \/ \E n \in NameSet : \E r \in AdapterResults(n) : Crawl(n, r)
    \/ \E n \in NameSet : CrawlRaises(n)
    \/ \E n \in NameSet : PutResult(n)
    \/ \E n \in NameSet : PutNone(n)
    \/ \E n \in NameSet : ThreadExit(n)
    \/ Collect
    \/ EndCollect
    \/ JoinThread
    \/ FinishRace

Spec == Init /\ [][Next]_vars

\* ------------------------------------------------------------------------
\* Claims about the race (Spec)
\* ------------------------------------------------------------------------
Dispatched == {crawlers_to_run[i] : i \in 1..Len(crawlers_to_run)}

RowsOf(table, n) == {i \in 1..Len(table) : table[i].Crawler = n}

StoredOf(n) == {i \in 1..Len(results) : results[i].crawler_type = n}

\* C1 as stated: when the race has completed, the result store, the
\* comparison table and the cost-benefit table each hold exactly one row
\* per dispatched strategy, also when an adapter call or the identity
\* lookup raised.
C1_AsStated ==
    main_pc = "done" =>
        /\ Len(results) = Len(crawlers_to_run)
        /\ \A n \in Dispatched : Cardinality(StoredOf(n)) = 1
        /\ ret.shown
        /\ Len(ret.comparison) = Len(crawlers_to_run)
        /\ Len(ret.cost_benefit) = Len(crawlers_to_run)
        /\ \A n \in Dispatched :
              /\ Cardinality(RowsOf(ret.comparison, n)) = 1
              /\ Cardinality(RowsOf(ret.cost_benefit, n)) = 1

\* the worker of n caught an exception: it is in its except clause, or its
\* (name, None) report is queued, or the coordinator has shown the bare
\* "Failed" that only such a report produces
Crashed(n) ==
    \/ thread_pc[n] = "except"
    \/ \E i \in 1..Len(result_queue) :
          result_queue[i].name = n /\ ~result_queue[i].result.some
    \/ placeholders[n] = "failed"

\* C2 as stated: when an adapter's crawl call or the identity lookup before
\* it raises, the report for that strategy is an outcome with succeeded =
\* false and an error message, and once the race has completed that outcome
\* is recorded in the store like any other failure.
C2_AsStated ==
    /\ \A i \in 1..Len(result_queue) : result_queue[i].result.some
    /\ main_pc = "done" =>
          \A n \in Dispatched :
              Crashed(n) =>
                  \E i \in StoredOf(n) : ~results[i].success /\ results[i].error.some

PositionOf(n) == CHOOSE i \in 1..Len(crawlers_to_run) : crawlers_to_run[i] = n

\* C3 as stated: whatever the order in which the adapters complete, after
\* the race the store lists the strategies in dispatch order.
C3_AsStated ==
    main_pc = "done" =>
        \A i, j \in 1..Len(results) :
            i < j => PositionOf(results[i].crawler_type)
                        < PositionOf(results[j].crawler_type)

\* C4: race_complete is true only in a state where a report has been
\* received from every one of the N dispatched adapters (N reports taken
\* from the queue, the status of every dispatched strategy updated, nothing
\* left in the queue) and every worker thread has terminated.
C4_CompleteOnlyAfterAll ==
    race_complete =>
        /\ results_received = Len(crawlers_to_run)
        /\ result_queue = <<>>
        /\ \A n \in Dispatched :
              /\ placeholders[n] \in {"completed", "failed_with_error", "failed"}
              /\ thread_pc[n] = "terminated"

\* C4 witness: a race of three adapters has been marked complete.
C4_Witness ==
    /\ race_complete
    /\ Len(crawlers_to_run) = 3

\* the outcomes held by a worker, the queue, the session and the store
HeldOutcomes ==
    {thread_result[n].val : n \in {m \in NameSet : thread_result[m].some}}
    \cup {result_queue[i].result.val :
             i \in {j \in 1..Len(result_queue) : result_queue[j].result.some}}
    \cup {crawl_results[i].value : i \in 1..Len(crawl_results)}
    \cup {results[i] : i \in 1..Len(results)}

C12_AsStated ==
    \A r \in HeldOutcomes : r.error.some <=> ~r.success

FinalStatus == {"completed", "failed_with_error", "failed"}

\* the worker of n has put its report on the queue
Reported(n) == thread_pc[n] \in {"exit", "terminated"}

\* C13: during a race the completion update of a strategy's status display
\* happens at most once per strategy, only for a dispatched strategy whose
\* worker has put its report and whose report has left the queue, and once
\* the collection loop has ended it has happened exactly once for every
\* dispatched strategy.
C13_ObservedOncePerReport ==
    \A n \in NameSet :
        /\ observed[n] <= 1
        /\ observed[n] = 1 =>
              /\ n \in Dispatched
              /\ Reported(n)
              /\ \A i \in 1..Len(result_queue) : result_queue[i].name # n
        /\ observed[n] = 1 <=> placeholders[n] \in FinalStatus
        /\ (main_pc \in {"join", "done"} /\ n \in Dispatched) => observed[n] = 1

\* C13 witness: a race of three strategies has ended, one of them crashed,
\* one failed and one succeeded, and each was observed once.
C13_Witness ==
    /\ main_pc = "done"
    /\ Len(crawlers_to_run) = 3
    /\ \A n \in Dispatched : observed[n] = 1
    /\ \E n \in Dispatched : placeholders[n] = "failed"
    /\ \E n \in Dispatched : placeholders[n] = "failed_with_error"
    /\ \E n \in Dispatched : placeholders[n] = "completed"

\* C14: whatever happens to the other adapters (failure or crash), every
\* dispatched adapter is invoked (its worker is started), is never ended
\* from outside (a worker that has ended has put its own report), and once
\* the race is over has terminated by itself with the outcome its crawl
\* returned recorded unchanged, once, in the session dict and the store.
C14_NoCrossEffect ==
    \A m \in Dispatched :
        /\ main_pc \in {"collect", "join", "done"} => thread_pc[m] # "none"
        /\ Reported(m) =>
              \/ \E i \in 1..Len(result_queue) : result_queue[i].name = m
              \/ observed[m] = 1
        /\ main_pc = "done" =>
              /\ thread_pc[m] = "terminated"
              /\ thread_result[m].some =>
                    /\ Cardinality(StoredOf(m)) = 1
                    /\ \A i \in StoredOf(m) : results[i] = thread_result[m].val
                    /\ DictHas(crawl_results, m)
                    /\ DictGet(crawl_results, m) = thread_result[m].val

\* C14 witness: a race of three adapters is over in which one adapter
\* crashed, one reported a failure, and the third one's successful outcome
\* is in the store.
C14_Witness ==
    /\ main_pc = "done"
    /\ Len(crawlers_to_run) = 3
    /\ \E n \in Dispatched : placeholders[n] = "failed"
    /\ \E n \in Dispatched : placeholders[n] = "failed_with_error"
    /\ \E m \in Dispatched :
          /\ thread_result[m].some
          /\ thread_result[m].val.success
          /\ \E i \in StoredOf(m) : results[i] = thread_result[m].val

\* C15: a race started with no crawler selected dispatches no worker and
\* leaves the queue, the session dict and the store empty (race_complete
\* stays false), and get_winner on that empty store returns no winner with
\* the reason "No results available".
C15_ZeroAdapters ==
    main_pc = "no_crawlers" =>
        /\ crawlers_to_run = <<>>
        /\ \A n \in NameSet : thread_pc[n] = "none" /\ observed[n] = 0
        /\ result_queue = <<>>
        /\ crawl_results = <<>>
        /\ results = <<>>
        /\ ~race_complete
        /\ get_winner(results).winner = None
        /\ get_winner(results).reason.text = "No results available"

\* C15 witness: a race with no crawler selected has been rejected.
C15_Witness ==
    /\ main_pc = "no_crawlers"
    /\ results = <<>>
    /\ get_winner(results) = [winner |-> None, reason |-> [text |-> "No results available"]]

\* every dispatched adapter has reported an outcome with success = False
AllReportedFailure ==
    /\ Dispatched # {}
    /\ \A n \in Dispatched : placeholders[n] = "failed_with_error"

\* C16: after a race in which every dispatched adapter reported a failed
\* outcome, get_winner returns no winner with the reason "All crawlers
\* failed" and get_summary_stats reports successful_crawls = 0 (with one
\* crawl counted per adapter).
C16_AllFailed ==
    (main_pc = "done" /\ AllReportedFailure) =>
        /\ ret.shown
        /\ ret.winner_info.winner = None
        /\ ret.winner_info.reason.text = "All crawlers failed"
        /\ ~ret.summary.empty
        /\ ret.summary.successful_crawls = 0
        /\ ret.summary.total_crawls = Len(crawlers_to_run)

\* C16 witness: a race of three adapters that all reported a failure is
\* over and its results have been computed.
C16_Witness ==
    /\ main_pc = "done"
    /\ Len(crawlers_to_run) = 3
    /\ AllReportedFailure
    /\ ret.shown
    /\ ret.summary.total_crawls = 3

\* ------------------------------------------------------------------------
\* SpecProxy: threads sharing one AntiBot call get_next_proxy
\* ------------------------------------------------------------------------
ProxyList(n) == [i \in 1..n |-> i]

InitProxy ==
    /\ RaceIdle
    /\ results = <<>>
    /\ subject = None
    /\ ret = NoCall
    /\ proxies \in {ProxyList(n) : n \in 0..MaxProxies}
    /\ proxy_index = 0
    /\ caller_pc = [c \in Callers |-> "idle"]
    /\ caller_url = [c \in Callers |-> None]
    /\ caller_tmp = [c \in Callers |-> 0]
    /\ call_log = <<>>

CallsStarted == Len(call_log) + Cardinality({c \in Callers : caller_pc[c] # "idle"})

\* get_next_proxy is entered; without proxies it returns None at once
EnterGetNextProxy(c) ==
    /\ caller_pc[c] = "idle"
    /\ CallsStarted < MaxCalls
    /\ IF proxies = <<>>
       THEN /\ call_log' = Append(call_log, None)
            /\ UNCHANGED caller_pc
       ELSE /\ caller_pc' = [caller_pc EXCEPT ![c] = "read_url"]
            /\ UNCHANGED call_log
    /\ UNCHANGED <<race_vars, results, subject, ret, proxies, proxy_index,
                   caller_url, caller_tmp>>

\* proxy_url = self.proxies[self.proxy_index]
ReadProxyUrl(c) ==
    /\ caller_pc[c] = "read_url"
    /\ caller_url' = [caller_url EXCEPT ![c] = Some(proxies[proxy_index + 1])]
    /\ caller_pc' = [caller_pc EXCEPT ![c] = "read_index"]
    /\ UNCHANGED <<race_vars, results, subject, ret, proxies, proxy_index,
                   caller_tmp, call_log>>

\* the right-hand side self.proxy_index + 1 is evaluated
ReadProxyIndex(c) ==
    /\ caller_pc[c] = "read_index"
    /\ caller_tmp' = [caller_tmp EXCEPT ![c] = proxy_index + 1]
    /\ caller_pc' = [caller_pc EXCEPT ![c] = "write_index"]
    /\ UNCHANGED <<race_vars, results, subject, ret, proxies, proxy_index,
                   caller_url, call_log>>

\* self.proxy_index = (...) % len(self.proxies), then the proxy is returned
WriteProxyIndex(c) ==
    /\ caller_pc[c] = "write_index"
    /\ proxy_index' = caller_tmp[c] % Len(proxies)
    /\ call_log' = Append(call_log, caller_url[c])
    /\ caller_pc' = [caller_pc EXCEPT ![c] = "idle"]
    /\ caller_url' = [caller_url EXCEPT ![c] = None]
    /\ caller_tmp' = [caller_tmp EXCEPT ![c] = 0]
    /\ UNCHANGED <<race_vars, results, subject, ret, proxies>>

NextProxy ==
    \/ \E c \in Callers : EnterGetNextProxy(c)
    \/ \E c \in Callers : ReadProxyUrl(c)
    \/ \E c \in Callers : ReadProxyIndex(c)
    \/ \E c \in Callers : WriteProxyIndex(c)

SpecProxy == InitProxy /\ [][NextProxy]_vars

\* ------------------------------------------------------------------------
\* Claims about the proxy rotation (SpecProxy)
\* ------------------------------------------------------------------------
\* C7 as stated: with n >= 1 proxies, once k calls of get_next_proxy have
\* returned and none is under way, the cursor has advanced k times
\* (proxy_index = k mod n) and the calls have returned the proxies at
\* positions 0, 1, ..., k-1 modulo n, each position as often as it occurs
\* among those, also when the calls were interleaved.
C7_AsStated ==
    (Len(proxies) >= 1 /\ \A c \in Callers : caller_pc[c] = "idle") =>
        LET n == Len(proxies)
            k == Len(call_log)
        IN  /\ proxy_index = k % n
            /\ \A p \in 0..(n - 1) :
                  Cardinality({i \in 1..k : call_log[i] = Some(proxies[p + 1])})
                     = Cardinality({i \in 0..(k - 1) : i % n = p})

\* ------------------------------------------------------------------------
\* SpecQuality: the two quality methods applied to one CrawlResult
\* ------------------------------------------------------------------------
SampleContents ==
    { None,
      Some(<<>>),
      Some(X(MinContentLen - 1)),
      Some(X(MinContentLen)),
      Some(Rep(" ", 3) \o X(MinContentLen - 1) \o Rep("\n", 3)),
      Some(Rep(" ", MinContentLen + 20)),
      Some(X(IntegrityWindow - 7) \o Blocked),
      Some(X(IntegrityWindow - 6) \o Blocked),
      Some(X(MinContentLen) \o <<"C","A","P","T","C","H","A">>),
      Some(<<"Idot">> \o X(IntegrityWindow - 8) \o Blocked),
      Some(<<"<","H","T","M","L",">">> \o X(MinContentLen)),
      Some(X(HtmlWindow - 5) \o HtmlTag \o X(5)),
      Some(X(HtmlWindow - 4) \o HtmlTag \o X(4)) }

SampleStatus == {None, Some(200), Some(403), Some(404), Some(429), Some(503)}

MetadataSet == [has_json : BOOLEAN, has_markdown : BOOLEAN, clean_text : BOOLEAN]

QualityInputs ==
    { CrawlResult(Url, s, 10, st, c,
                  IF s THEN None ELSE Some("Error"),
                  IF TruthyStr(c) THEN Len(c.val) ELSE 0,
                  Names[1], m) :
        s \in BOOLEAN, st \in SampleStatus, c \in SampleContents, m \in MetadataSet }

InitQuality ==
    /\ RaceIdle
    /\ ProxyIdle
    /\ results = <<>>
    /\ subject \in QualityInputs
    /\ ret = NoCall

CallIntegrity ==
    /\ ret' = [op |-> "has_data_integrity_issues",
               val |-> has_data_integrity_issues(subject)]
    /\ UNCHANGED <<race_vars, results, subject, proxy_vars>>

CallQuality ==
    /\ ret' = [op |-> "get_structural_quality_score",
               val |-> get_structural_quality_score(subject)]
    /\ UNCHANGED <<race_vars, results, subject, proxy_vars>>

NextQuality == CallIntegrity \/ CallQuality

SpecQuality == InitQuality /\ [][NextQuality]_vars

\* ------------------------------------------------------------------------
\* SpecEngine: a BenchmarkEngine used through its methods
\* ------------------------------------------------------------------------
MaxStore == 3

\* what the engine is fed: results shaped like those of the three crawlers
Rich == [has_json |-> TRUE, has_markdown |-> TRUE, clean_text |-> TRUE]

Timeout(n) ==
    create_result(n, Url, FALSE, 10, None, None, Some("Request timeout"), NoMetadata)

EngineInputs ==
    { \* Lightweight: a fast page, a fast page too short to pass the
      \* integrity check, a failure
      create_result(Names[1], Url, TRUE, 5, Some(200), Some(X(MinContentLen)), None, NoMetadata),
      create_result(Names[1], Url, TRUE, 5, Some(200), Some(X(5)), None, NoMetadata),
      Timeout(Names[1]),
      \* Browser-Based: a page as fast and as plain as Lightweight's, a failure
      create_result(Names[2], Url, TRUE, 5, Some(200), Some(X(MinContentLen)), None, NoMetadata),
      Timeout(Names[2]),
      \* AI-Agentic: a slow, well-structured page, a failure
      create_result(Names[3], Url, TRUE, 20, Some(200), Some(X(MinContentLen)), None, Rich),
      Timeout(Names[3]) }

InitEngine ==
    /\ RaceIdle
    /\ ProxyIdle
    /\ results = <<>>
    /\ subject = None
    /\ ret = NoCall

AddResult(r) ==
    /\ Len(results) < MaxStore
    /\ results' = add_result(results, r)
    /\ ret' = [op |-> "add_result"]
    /\ UNCHANGED <<race_vars, subject, proxy_vars>>

ClearResults ==
    /\ results' = clear_results
    /\ ret' = [op |-> "clear_results"]
    /\ UNCHANGED <<race_vars, subject, proxy_vars>>

CallGetWinner ==
    /\ ret' = [op |-> "get_winner", val |-> get_winner(results)]
    /\ UNCHANGED <<race_vars, results, subject, proxy_vars>>

CallGetCostBenefit ==
    /\ ret' = [op |-> "get_cost_benefit_analysis",
               val |-> get_cost_benefit_analysis(results)]
    /\ UNCHANGED <<race_vars, results, subject, proxy_vars>>

CallGetSummaryStats ==
    /\ ret' = [op |-> "get_summary_stats", val |-> get_summary_stats(results)]
    /\ UNCHANGED <<race_vars, results, subject, proxy_vars>>

NextEngine ==
    \/ \E r \in EngineInputs : AddResult(r)
    \/ ClearResults
    \/ CallGetWinner
    \/ CallGetCostBenefit
    \/ CallGetSummaryStats

SpecEngine == InitEngine /\ [][NextEngine]_vars

\* ------------------------------------------------------------------------
\* Claims about the benchmark engine (SpecEngine)
\* ------------------------------------------------------------------------
Successes == {i \in 1..Len(results) : results[i].success}

SuccessesOf(k) == {i \in Successes : results[i].crawler_type = k}

FirstOf(S) == CHOOSE i \in S : \A j \in S : i <= j
LastOf(S) == CHOOSE i \in S : \A j \in S : i >= j

WinnerReturned == ret.op = "get_winner" /\ ret.val.winner.some

C6_WinnerIsFirstMaximum ==
    (ret.op = "get_winner" /\ Successes # {}) =>
        /\ ret.val.winner.some
        /\ LET scores == ret.val.all_scores
               w == ret.val.winner.val
           IN  /\ {scores[n].key : n \in 1..Len(scores)}
                     = {results[i].crawler_type : i \in Successes}
               /\ \A m, n \in 1..Len(scores) : m # n => scores[m].key # scores[n].key
               /\ \E n \in 1..Len(scores) :
                     scores[n].key = w /\ scores[n].value = ret.val.score
               /\ \A n \in 1..Len(scores) :
                     /\ ~RatLess(ret.val.score, scores[n].value)
                     /\ RatEq(scores[n].value, ret.val.score)
                           => FirstOf(SuccessesOf(w)) <= FirstOf(SuccessesOf(scores[n].key))

\* C6 witness: get_winner has returned for a store in which two strategies
\* tie at the maximum score.
C6_Witness ==
    /\ WinnerReturned
    /\ \E n \in 1..Len(ret.val.all_scores) :
          /\ ret.val.all_scores[n].key # ret.val.winner.val
          /\ RatEq(ret.val.all_scores[n].value, ret.val.score)

CostBenefitReturned == ret.op = "get_cost_benefit_analysis"

\* the ranks of one column are a permutation of 1..k over the successful
\* rows, in the order `before` with ties in store order
RanksArePermutation(rank(_), before(_, _)) ==
    LET k == Cardinality(Successes)
    IN  /\ \A i \in Successes : rank(i).kind = "rank"
        /\ {rank(i).val : i \in Successes} = 1..k
        /\ \A i, j \in Successes :
              (before(i, j) \/ (~before(j, i) /\ i < j)) => rank(i).val < rank(j).val

\* C8 as stated: for every store with k successful outcomes, the speed
\* ranks of the successful outcomes are a permutation of 1..k in ascending
\* elapsed time, the quality ranks a permutation of 1..k in descending
\* structural quality, equal keys ranked in store order.
C8_AsStated ==
    CostBenefitReturned =>
        /\ Len(ret.val) = Len(results)
        /\ RanksArePermutation(
              LAMBDA i : ret.val[i].SpeedRank,
              LAMBDA i, j : results[i].time_taken < results[j].time_taken)
        /\ RanksArePermutation(
              LAMBDA i : ret.val[i].QualityRank,
              LAMBDA i, j : get_structural_quality_score(results[i])
                              > get_structural_quality_score(results[j]))

\* ------------------------------------------------------------------------
\* Claims about the quality evaluator (SpecQuality)
\* ------------------------------------------------------------------------
KeywordIn(text) == Contains(text, Blocked) \/ Contains(text, Captcha)

IntegrityReturned == ret.op = "has_data_integrity_issues"
QualityReturned == ret.op = "get_structural_quality_score"

\* C9 as stated: has_integrity_issue(outcome) is true exactly when succeeded
\* is false, or status_code is 403, 429 or 503, or content is absent or its
\* trimmed length is under 100, or the first 500 characters of content,
\* lower-cased, contain "blocked" or "captcha".
C9_AsStated ==
    IntegrityReturned =>
        (ret.val <=>
            \/ ~subject.success
            \/ subject.status_code.some /\ subject.status_code.val \in {403, 429, 503}
            \/ ~subject.content.some
            \/ Len(Strip(subject.content.val)) < 100
            \/ KeywordIn(Lower(Take(subject.content.val, 500))))

\* C9 amended: as above, except that the keyword search looks at the first
\* 500 characters of the lower-cased content (lower-casing can lengthen the
\* text, so these are not always the first 500 characters of content); it
\* is true for every failed outcome and for every outcome with status 403,
\* 429 or 503, whatever the content.
C9_IntegrityExact ==
    IntegrityReturned =>
        /\ ret.val <=>
            \/ ~subject.success
            \/ subject.status_code.some /\ subject.status_code.val \in {403, 429, 503}
            \/ ~subject.content.some
            \/ Len(Strip(subject.content.val)) < 100
            \/ KeywordIn(Take(Lower(subject.content.val), 500))
        /\ ~subject.success => ret.val
        /\ (subject.status_code.some /\ subject.status_code.val \in {403, 429, 503})
              => ret.val

\* C9 witness: a successful outcome with status 200 and 500 trimmed
\* characters is flagged only because of the keyword in its first 500
\* characters.
C9_Witness ==
    /\ IntegrityReturned
    /\ ret.val
    /\ subject.success
    /\ subject.status_code = Some(200)
    /\ subject.content.some
    /\ Len(Strip(subject.content.val)) = 500

ClaimedQuality(r) ==
    LET raw == 50 + (IF r.metadata.has_json THEN 20 ELSE 0)
                  + (IF r.metadata.has_markdown THEN 15 ELSE 0)
                  + (IF r.metadata.clean_text THEN 15 ELSE 0)
                  - (IF Contains(Lower(Take(r.content.val, 100)), HtmlTag)
                     THEN 10 ELSE 0)
    IN  IF raw < 0 THEN 0 ELSE IF raw > 100 THEN 100 ELSE raw

\* C10 as stated: structural_quality(outcome) is 0 when succeeded is false
\* or content is absent; for every other outcome it is 50 + 20 (structured
\* data) + 15 (markdown) + 15 (clean text) - 10 (raw "<html" in the
\* lower-cased first 100 characters), clamped to [0, 100].
C10_AsStated ==
    QualityReturned =>
        /\ ret.val = IF ~subject.success \/ ~subject.content.some
                     THEN 0 ELSE ClaimedQuality(subject)
        /\ ret.val \in 0..100

\* C10 amended: structural_quality(outcome) is 0 when succeeded is false or
\* content is absent or empty; for every other outcome it is 50 + 20 + 15 +
\* 15 - 10 as above, clamped to [0, 100]; the result always lies in [0, 100].
C10_QualityExact ==
    QualityReturned =>
        /\ ret.val = IF \/ ~subject.success
                        \/ ~subject.content.some
                        \/ subject.content.val = <<>>
                     THEN 0 ELSE ClaimedQuality(subject)
        /\ ret.val \in 0..100

\* C10 witness: a successful outcome with all three flags and raw HTML at
\* the start of its content scores 50 + 20 + 15 + 15 - 10.
C10_Witness ==
    /\ QualityReturned
    /\ subject.success
    /\ subject.metadata = [has_json |-> TRUE, has_markdown |-> TRUE, clean_text |-> TRUE]
    /\ ret.val = 90

\* ------------------------------------------------------------------------
\* SpecScoring: a BenchmarkEngine fed with results of arbitrary strategies
\* ------------------------------------------------------------------------
JsonOnly == [has_json |-> TRUE, has_markdown |-> FALSE, clean_text |-> FALSE]
JsonMarkdown == [has_json |-> TRUE, has_markdown |-> TRUE, clean_text |-> FALSE]

\* A: 0.5 s, clean, quality 50 + 20; B: 2.3 s, clean, quality 50 + 20 + 15;
\* C: a failure
OutcomeA == create_result("A", Url, TRUE, 5, Some(200), Some(X(MinContentLen)), None, JsonOnly)
OutcomeB == create_result("B", Url, TRUE, 23, Some(200), Some(X(MinContentLen)), None, JsonMarkdown)
OutcomeC == Timeout("C")

ScoringInputs ==
    { OutcomeA, OutcomeB, OutcomeC,
      \* an empty page fetched in no measurable time
      create_result(Names[1], Url, TRUE, 0, Some(200), Some(<<>>), None, NoMetadata),
      \* raw HTML from the browser
      create_result(Names[2], Url, TRUE, 20, Some(200),
                    Some(HtmlTag \o X(MinContentLen)), None, NoMetadata),
      \* a well-structured page in 0.1 s, and an empty extraction
      create_result(Names[3], Url, TRUE, 1, Some(200), Some(X(MinContentLen)), None, Rich),
      create_result(Names[3], Url, TRUE, 5, Some(200), Some(<<>>), None, Rich) }

NextScoring ==
    \/ \E r \in ScoringInputs : AddResult(r)
    \/ ClearResults
    \/ CallGetWinner
    \/ CallGetCostBenefit

SpecScoring == InitEngine /\ [][NextScoring]_vars

\* ------------------------------------------------------------------------
\* Claims about scoring (SpecScoring)
\* ------------------------------------------------------------------------
StoreIsABC ==
    /\ Len(results) = 3
    /\ {results[i] : i \in 1..3} = {OutcomeA, OutcomeB, OutcomeC}

\* C17: for a store holding A (succeeded, 0.5 s, no integrity issue,
\* quality 70), B (succeeded, 2.3 s, no integrity issue, quality 85) and C
\* (failed) in any insertion order, get_winner returns A with score 78, B's
\* score is 68.35 to two decimals, and C is not in the score mapping.
C17_WorkedExample ==
    (ret.op = "get_winner" /\ StoreIsABC) =>
        /\ ret.val.winner = Some("A")
        /\ RatEq(ret.val.score, Rat(78, 1))
        /\ DictHas(ret.val.all_scores, "A")
        /\ RatEq(DictGet(ret.val.all_scores, "A"), Rat(78, 1))
        /\ DictHas(ret.val.all_scores, "B")
        /\ ~RatLess(DictGet(ret.val.all_scores, "B"), Rat(68345, 1000))
        /\ RatLess(DictGet(ret.val.all_scores, "B"), Rat(68355, 1000))
        /\ ~DictHas(ret.val.all_scores, "C")

\* C17 witness: get_winner has answered for the store <<C, B, A>>, whose
\* outcomes have the integrity and quality the example gives them.
C17_Witness ==
    /\ ret.op = "get_winner"
    /\ results = <<OutcomeC, OutcomeB, OutcomeA>>
    /\ ~has_data_integrity_issues(OutcomeA)
    /\ get_structural_quality_score(OutcomeA) = 70
    /\ ~has_data_integrity_issues(OutcomeB)
    /\ get_structural_quality_score(OutcomeB) = 85
    /\ ~OutcomeC.success
    /\ ret.val.winner = Some("A")

RatAdd(a, b) == Rat(a.num * b.den + b.num * a.den, a.den * b.den)
RatLeq(a, b) == ~RatLess(b, a)

\* the three components as the claim gives them; elapsed_seconds is
\* time_taken / 10, so 10 / elapsed_seconds is 100 / time_taken
SpeedComponent(r) ==
    IF r.time_taken > 0
    THEN (IF 100 < 30 * r.time_taken THEN Rat(100, r.time_taken) ELSE Rat(30, 1))
    ELSE Rat(0, 1)

IntegrityComponent(r) == IF has_data_integrity_issues(r) THEN Rat(0, 1) ELSE Rat(30, 1)

QualityComponent(r) == Rat(4 * get_structural_quality_score(r), 10)

\* C18: every score in the mapping get_winner returns is the sum of a speed
\* component min(10 / elapsed_seconds, 30) (0 when elapsed_seconds is 0)
\* that is at most 30, an integrity component that is 30 without integrity
\* issue and 0 otherwise, and a quality component 0.4 * structural_quality
\* in [0, 40], taken from the successful outcome the score was computed
\* from; the score lies in [0, 100].
C18_ScoreComponents ==
    WinnerReturned =>
        \A n \in 1..Len(ret.val.all_scores) :
            LET e == ret.val.all_scores[n]
                r == results[LastOf(SuccessesOf(e.key))]
                speed == SpeedComponent(r)
                integrity == IntegrityComponent(r)
                quality == QualityComponent(r)
            IN  /\ RatEq(e.value, RatAdd(speed, RatAdd(integrity, quality)))
                /\ RatLeq(Rat(0, 1), speed) /\ RatLeq(speed, Rat(30, 1))
                /\ RatEq(integrity, Rat(0, 1)) \/ RatEq(integrity, Rat(30, 1))
                /\ RatLeq(Rat(0, 1), quality) /\ RatLeq(quality, Rat(40, 1))
                /\ RatLeq(Rat(0, 1), e.value) /\ RatLeq(e.value, Rat(100, 1))

\* C18 witness: get_winner has scored an outcome of 0.1 s whose speed part
\* is capped (score 100), an outcome with elapsed time 0 (score 0) and an
\* outcome below the cap.
C18_Witness ==
    /\ WinnerReturned
    /\ \E n \in 1..Len(ret.val.all_scores) : RatEq(ret.val.all_scores[n].value, Rat(100, 1))
    /\ \E n \in 1..Len(ret.val.all_scores) : RatEq(ret.val.all_scores[n].value, Rat(0, 1))
    /\ \E i \in Successes : results[i].time_taken = 0
    /\ \E i \in Successes : results[i].time_taken = 1
    /\ \E i \in Successes : results[i].time_taken = 20

\* ------------------------------------------------------------------------
\* Further claims about the quality evaluator (SpecQuality)
\* ------------------------------------------------------------------------
FlagCount(m) ==
    (IF m.has_json THEN 1 ELSE 0) + (IF m.has_markdown THEN 1 ELSE 0)
        + (IF m.clean_text THEN 1 ELSE 0)

WithFlags(r, m) == [r EXCEPT !.metadata = m]

\* C19: of two outcomes that differ only in the flags has_json,
\* has_markdown and clean_text, the one with more true flags never has the
\* lower structural quality score; and the score of an outcome with
\* success = False is 0 whatever its flags.
C19_MonotoneInFlags ==
    QualityReturned =>
        /\ \A m \in MetadataSet :
              FlagCount(m) < FlagCount(subject.metadata) =>
                  get_structural_quality_score(WithFlags(subject, m)) <= ret.val
        /\ ~subject.success => ret.val = 0

\* C19 witness: a successful outcome with the two lighter flags scores 80,
\* above the 70 of the same outcome with only the heaviest flag.
C19_Witness ==
    /\ QualityReturned
    /\ subject.success
    /\ subject.metadata = [has_json |-> FALSE, has_markdown |-> TRUE, clean_text |-> TRUE]
    /\ ret.val = 80
    /\ get_structural_quality_score(WithFlags(subject, JsonOnly)) = 70

\* ------------------------------------------------------------------------
\* Further claims about scoring (SpecScoring)
\* ------------------------------------------------------------------------
\* C20: get_cost_benefit_analysis returns one row per stored outcome in
\* store order; the cost is 1, 5 or 10 for Lightweight, Browser-Based and
\* AI-Agentic and 5 for any other strategy; the benefit is 0 for a failed
\* outcome and 40 + 30 (no integrity issue) + 0.3 * structural quality
\* otherwise; the ratio is benefit / cost; the recommendation is Excellent
\* for a ratio above 5, Good above 3, Fair above 1, else Poor.
\* (benefit in tenths, ratio in hundredths)
C20_CostBenefitRows ==
    CostBenefitReturned =>
        /\ Len(ret.val) = Len(results)
        /\ \A i \in 1..Len(results) :
              LET r == results[i]
                  row == ret.val[i]
                  cost == IF r.crawler_type = "Lightweight" THEN 1
                          ELSE IF r.crawler_type = "Browser-Based" THEN 5
                          ELSE IF r.crawler_type = "AI-Agentic" THEN 10
                          ELSE 5
                  benefit == IF ~r.success THEN 0
                             ELSE 400 + (IF has_data_integrity_issues(r) THEN 0 ELSE 300)
                                      + 3 * get_structural_quality_score(r)
              IN  /\ row.Crawler = r.crawler_type
                  /\ row.RelativeCost = cost
                  /\ row.BenefitScore = benefit
                  /\ row.CostBenefitRatio * cost = benefit * 10
                  /\ row.Recommendation =
                        IF benefit > 50 * cost THEN "Excellent"
                        ELSE IF benefit > 30 * cost THEN "Good"
                        ELSE IF benefit > 10 * cost THEN "Fair"
                        ELSE "Poor"

\* C20 witness: the analysis of a store of three outcomes has a row of a
\* strategy outside the cost table, an Excellent, a Good and a Poor row.
C20_Witness ==
    /\ CostBenefitReturned
    /\ Len(ret.val) = 3
    /\ \E i \in 1..3 : ret.val[i].Crawler \notin NameSet /\ ret.val[i].RelativeCost = 5
    /\ \E i \in 1..3 : ret.val[i].Recommendation = "Excellent"
    /\ \E i \in 1..3 : ret.val[i].Recommendation = "Good" /\ ret.val[i].RelativeCost = 10
    /\ \E i \in 1..3 : ret.val[i].Recommendation = "Poor" /\ ret.val[i].BenefitScore = 0

\* ------------------------------------------------------------------------
\* Further claims about the engine (SpecEngine)
\* ------------------------------------------------------------------------
Failures == {i \in 1..Len(results) : ~results[i].success}

\* a row without benefit: benefit 0, ratio 0, "Poor"
IsPoorRow(row) ==
    /\ row.BenefitScore = 0
    /\ row.CostBenefitRatio = 0
    /\ row.Recommendation = "Poor"

Families == NameSet \cup {"Other"}

\* the failed outcome r as another strategy would report it, with another
\* status code and other flags
FailedVariants(r) ==
    {[r EXCEPT !.crawler_type = k, !.status_code = st, !.metadata = m] :
        k \in Families, st \in SampleStatus, m \in MetadataSet}

\* C21: the cost-benefit row of every failed outcome in the store has
\* benefit 0, ratio 0 and the recommendation "Poor", and so has the row of
\* the same failure reported by any strategy family with any status code
\* and any flags.
C21_FailedRowIsPoor ==
    CostBenefitReturned =>
        \A i \in Failures :
            /\ IsPoorRow(ret.val[i])
            /\ \A v \in FailedVariants(results[i]) :
                  IsPoorRow(get_cost_benefit_analysis(<<v>>)[1])

\* C21 witness: the analysis has rated a store in which a failed outcome
\* stands between two successful ones.
C21_Witness ==
    /\ CostBenefitReturned
    /\ Len(results) = 3
    /\ results[1].success /\ ~results[2].success /\ results[3].success
    /\ IsPoorRow(ret.val[2])
    /\ ~IsPoorRow(ret.val[1])

HasNoRank(cell) == cell.kind # "rank"

\* C22: every row of the cost-benefit analysis that belongs to a failed
\* outcome carries neither a speed rank nor a quality rank, also when the
\* store holds a successful outcome of the same crawler.
C22_AsStated ==
    CostBenefitReturned =>
        \A i \in Failures :
            /\ HasNoRank(ret.val[i].SpeedRank)
            /\ HasNoRank(ret.val[i].QualityRank)

SummaryReturned == ret.op = "get_summary_stats"

\* C23: for every non-empty store get_summary_stats returns the number of
\* stored outcomes, the number of successful ones, the mean of time_taken
\* over all outcomes (failed ones included), the sum of data_size over all
\* outcomes and the set of the distinct crawler types.
C23_SummaryStats ==
    (SummaryReturned /\ results # <<>>) =>
        LET n == Len(results)
            stats == ret.val
        IN  /\ ~stats.empty
            /\ stats.total_crawls = n
            /\ stats.successful_crawls = Cardinality(Successes)
            /\ stats.avg_time.den > 0
            /\ stats.avg_time.num * n
                 = stats.avg_time.den * SumTimeTaken(results, n)
            /\ stats.total_data_size = SumDataSize(results, n)
            /\ \A k \in Families :
                  k \in stats.crawlers_tested
                    <=> \E i \in 1..n : results[i].crawler_type = k
            /\ stats.crawlers_tested \subseteq Families

\* C23 witness: statistics of a store with a failed outcome, whose time
\* differs from the others', and two outcomes of one crawler.
C23_Witness ==
    /\ SummaryReturned
    /\ Len(results) = 3
    /\ Cardinality(Successes) = 2
    /\ Cardinality(ret.val.crawlers_tested) = 2
    /\ \E i \in Failures : \A j \in Successes :
          results[i].time_taken # results[j].time_taken
    /\ ret.val.total_data_size > 0

\* ------------------------------------------------------------------------
\* SpecSession: a session in which races run from the dashboard and, while
\* no race is running, the session's engine is also called directly
\* ------------------------------------------------------------------------
\* outcomes added directly: what the Browser-Based adapter can return
SessionInputs == AdapterResults(Names[2])

NoRaceRunning == main_pc \in {"idle", "no_crawlers", "done"}

DirectAdd(r) == NoRaceRunning /\ AddResult(r)

DirectClear == NoRaceRunning /\ ClearResults

NextSession ==
    \/ Next
    \/ \E r \in SessionInputs : DirectAdd(r)
    \/ DirectClear

SpecSession == Init /\ [][NextSession]_vars

\* a step that empties the store: clear_results, called directly or by a
\* starting race
StoreCleared ==
    /\ results' = <<>>
    /\ ret'.op = "clear_results" \/ races_started' = races_started + 1

\* a step that appends one outcome to the store and keeps what was there:
\* add_result, called directly or for the report the coordinator received
StoreAppended ==
    /\ Len(results') = Len(results) + 1
    /\ SubSeq(results', 1, Len(results)) = results
    /\ \/ ret'.op = "add_result"
       \/ /\ results_received' = results_received + 1
          /\ Head(result_queue).result = Some(results'[Len(results')])

\* a step that is neither: the store stays as it is
StoreKept ==
    /\ results' = results
    /\ races_started' = races_started
    /\ ret' = ret \/ ret'.op \notin {"add_result", "clear_results"}

\* from the start of a race until the engine is next called directly, every
\* stored outcome is a report of this race, stored once
StoreOfThisRace ==
    (main_pc \in {"dispatch", "collect", "join"} \/ (main_pc = "done" /\ ret.op = "display")) =>
        \A i \in 1..Len(results) :
            LET n == results[i].crawler_type
            IN  /\ n \in Dispatched
                /\ observed[n] = 1
                /\ thread_result[n] = Some(results[i])
                /\ \A j \in 1..Len(results) : results[j].crawler_type = n => j = i

\* C24: every step either appends one outcome to the store (add_result,
\* keeping the stored ones in their order, duplicates included), empties it
\* (clear_results, at the latest when a race starts) or leaves it alone, so
\* the store is the sequence of the outcomes added since the last clear; and
\* once a race has started the store holds only reports of that race.
C24_StoreIsAddedSinceClear ==
    StoreOfThisRace /\ [][(StoreCleared \/ StoreAppended \/ StoreKept) /\ StoreOfThisRace']_vars

\* C24 witness: after the second race of a session a direct add_result has
\* stored an outcome equal to the one the race had stored before it.
C24_Witness ==
    /\ races_started = 2
    /\ main_pc = "done"
    /\ ret.op = "add_result"
    /\ Len(results) >= 2
    /\ results[Len(results)] = results[Len(results) - 1]
    /\ thread_result[Names[2]] = Some(results[1])

\* ------------------------------------------------------------------------
\* SpecFair: Spec under fair scheduling. Every started thread keeps being
\* scheduled, and so does main(); a call of an adapter (or of the identity
\* lookup before it) eventually returns or raises. Nobody is obliged to
\* press "Start Race".
\* ------------------------------------------------------------------------
WorkerStep(n) ==
    \/ GetIdentity(n)
    \/ IdentityRaises(n)
    \/ \E r \in AdapterResults(n) : Crawl(n, r)
    \/ CrawlRaises(n)
    \/ PutResult(n)
    \/ PutNone(n)
    \/ ThreadExit(n)

\* main() up to the last join
CoordinatorStep ==
    \/ StartThread
    \/ Collect
    \/ EndCollect
    \/ JoinThread

\* main() has left the join loop and stands before race_complete = True
FinishRaceEnabled == main_pc = "join" /\ idx > Len(crawlers_to_run)

\* weak fairness of each worker and of main(); for main()'s last step,
\* FinishRace, it is written out with the step's enabling condition
Fairness ==
    /\ \A n \in NameSet : WF_vars(WorkerStep(n))
    /\ WF_vars(CoordinatorStep)
    /\ []<>~FinishRaceEnabled \/ []<><<FinishRace>>_vars

SpecFair == Init /\ [][Next]_vars /\ Fairness

\* the race is over: every worker has reported once and has ended, all N
\* reports were received, race_complete is set
RaceOver ==
    /\ main_pc = "done"
    /\ race_complete
    /\ results_received = Len(crawlers_to_run)
    /\ result_queue = <<>>
    /\ idx > Len(crawlers_to_run)
    /\ \A n \in Dispatched : thread_pc[n] = "terminated" /\ observed[n] = 1

MainStep ==
    \/ main_pc' # main_pc
    \/ idx' # idx
    \/ /\ main_pc = "collect"
       /\ results_received' = results_received + 1
       /\ Len(result_queue') = Len(result_queue) - 1

\* a step of some worker thread: the thread moves on
ThreadStep == thread_pc' # thread_pc /\ main_pc' = main_pc /\ main_pc # "done"

\* C26: during a race the store is changed only by main(), the single
\* coordinator that drains the queue: every step that changes the store is
\* a step of main() (the clear at the start of a race, or the add_result for
\* the report just taken off the queue), no step of a worker thread changes
\* the store, and a step changes it by at most one outcome.
C26_OnlyCoordinatorMutates ==
    [][/\ results' # results =>
            /\ MainStep
            /\ thread_pc' = thread_pc \/ main_pc' = "dispatch" \/ main_pc' = "no_crawlers"
            /\ \/ results' = <<>>
               \/ /\ main_pc = "collect"
                  /\ Head(result_queue).result.some
                  /\ results' = Append(results, Head(result_queue).result.val)
       /\ ThreadStep => results' = results]_vars

\* C26 witness: the coordinator has stored two outcomes while the third
\* worker is still inside its crawl.
C26_Witness ==
    /\ main_pc = "collect"
    /\ Len(results) = 2
    /\ \E n \in Dispatched : thread_pc[n] = "crawl"

\* ------------------------------------------------------------------------
\* The winner's rationale (SpecEngine)
\* ------------------------------------------------------------------------
\* the rationale describes outcome r: its time, whether it passes the
\* integrity check, and its quality where that is at least 80
RationaleOf(reason, r) ==
    /\ reason.time = r.time_taken
    /\ reason.integrity = ~has_data_integrity_issues(r)
    /\ reason.high_quality = (get_structural_quality_score(r) >= 80)
    /\ reason.high_quality => reason.quality = get_structural_quality_score(r)

\* C27: the outcome that get_winner's rationale describes (time, integrity,
\* quality) is the stored outcome from which the winner's score was
\* computed, also when the store holds several outcomes of the winner.
C27_AsStated ==
    (WinnerReturned /\ ret.val.winner.some) =>
        LET k == ret.val.winner.val
            scored == results[LastOf(SuccessesOf(k))]
        IN  /\ RatEq(composite_score(scored), ret.val.score)
            /\ RationaleOf(ret.val.reason, scored)

\* ------------------------------------------------------------------------
\* Ranges of the cost-benefit analysis (SpecScoring)
\* ------------------------------------------------------------------------
\* C28: in the cost-benefit analysis every successful outcome has a benefit
\* of at least 40 and a cost of at most 10, hence a ratio of at least 4 and
\* the recommendation Excellent or Good; Poor is given only to failed
\* outcomes and Fair to no outcome. (benefit in tenths, ratio in hundredths)
C28_RecommendationRanges ==
    CostBenefitReturned =>
        \A i \in 1..Len(results) :
            LET row == ret.val[i]
            IN  /\ results[i].success =>
                      /\ row.BenefitScore >= 400
                      /\ row.RelativeCost <= 10
                      /\ row.CostBenefitRatio >= 400
                      /\ row.Recommendation \in {"Excellent", "Good"}
                /\ row.Recommendation = "Poor" => ~results[i].success
                /\ row.Recommendation # "Fair"

\* C28 witness: the analysis has rated a successful outcome at the lowest
\* benefit and the highest cost (ratio exactly 4, Good) beside a failed one.
C28_Witness ==
    /\ CostBenefitReturned
    /\ \E i \in Successes :
          /\ ret.val[i].BenefitScore = 400
          /\ ret.val[i].RelativeCost = 10
          /\ ret.val[i].CostBenefitRatio = 400
          /\ ret.val[i].Recommendation = "Good"
    /\ \E j \in Failures : ret.val[j].Recommendation = "Poor"

=============================================================================
